---------------------------- MODULE Spec2Model ----------------------------
(* A model of open_hli_iterm.py: the repository finder, the chunk          *)
(* generator, the AppleScript generator and the driver loop that hands     *)
(* one script per chunk to osascript.                                      *)
EXTENDS Integers, Sequences, FiniteSets, TLC

VARIABLES
    baseKind,    \* what BASE_DIR is on disk: "missing", "file" or "dir"
    children,    \* name -> kind of the entry of that name under BASE_DIR
    term,        \* the terminal application's windows, in creation order
    pc,          \* where main() is
    repos,       \* main's repos
    stdout,      \* the lines main has printed
    lst,         \* the chunk generator's list
    size,        \* the chunk generator's size
    i,           \* the chunk generator's range position
    out,         \* the chunks the generator has yielded so far
    first,       \* open_repos_in_iterm's first
    calls,       \* the osascript calls issued so far, with their exit status
    interfered   \* whether something else closed or created terminal windows

vars == <<baseKind, children, term, pc, repos, stdout, lst, size, i, out,
          first, calls, interfered>>

-----------------------------------------------------------------------------
(* Bounds of the model.                                                    *)

\* how many names of NamePool the finder is scanned over with every child
\* kind; in a run of main any of them may be a repository
MaxFinderNames == 5
\* how many further names of NamePool may be repositories in a run of main
MaxMore == 7
\* the longest list handed to the chunk generator on its own
MaxLen == 5
\* the largest size handed to the chunk generator on its own
MaxSize == 4
\* how many windows the terminal may already have when main starts
MaxPreWindows == 1

-----------------------------------------------------------------------------
(* Names and paths.  A name is the sequence of its characters.             *)

BASE_DIR == "/Users/devanshwalia/Desktop/work/hli"
\* one pane more than applescript_for_group fills
GROUP_SIZE_five == 4 + 1
GROUP_SIZE == 4

\* the characters the names use, in code point order
CharOrder == <<"-", "a", "b", "c", "d", "e", "f", "g", "h", "l", "m", "r",
               "s", "t", "x">>

Ord(c) == CHOOSE k \in 1..Len(CharOrder) : CharOrder[k] = c

\* the substring line 20 looks for: "helm-charts"
HELM_CHARTS == <<"h", "e", "l", "m", "-", "c", "h", "a", "r", "t", "s">>

NamePool ==
    << <<"b">>,
       HELM_CHARTS \o <<"-", "x">>,
       <<"a", "b">>,
       <<"x", "-">> \o HELM_CHARTS,
       <<"a">>,
       <<"h", "e", "l", "m">>,
       <<"c">>, <<"d">>, <<"e">>, <<"f">>, <<"g">>, <<"h">>, <<"a", "-">>,
       <<"c", "h", "a", "r", "t", "s">> >>

Min(a, b) == IF a < b THEN a ELSE b

NamesUpTo(n) == {NamePool[k] : k \in 1..Min(n, Len(NamePool))}
Names == NamesUpTo(MaxFinderNames + MaxMore)

\* str < str of Python: the first differing character decides, a proper
\* prefix is smaller
StrLess(a, b) ==
    \E k \in 1..Len(b) :
        /\ \A j \in 1..(k - 1) : j <= Len(a) /\ a[j] = b[j]
        /\ k - 1 <= Len(a)
        /\ \/ Len(a) = k - 1
           \/ Len(a) >= k /\ Ord(a[k]) < Ord(b[k])

\* startswith in place of in
Contains_prefix_only(hay, needle) ==
    SubSeq(hay, 1, Min(Len(hay), Len(needle))) = needle

\* "needle in hay" of Python on strings
Contains(hay, needle) ==
    \E k \in 1..(Len(hay) - Len(needle) + 1) :
        SubSeq(hay, k, k + Len(needle) - 1) = needle

\* base / name, and str() of it
ChildPath(name) == [parent |-> BASE_DIR, name |-> name]
basename(path) == path.name

-----------------------------------------------------------------------------
(* The filesystem under BASE_DIR.  The kinds of an entry:                  *)
(*   "absent"      no entry of that name                                   *)
(*   "file"        a regular file                                          *)
(*   "dir"         a directory without .git                                *)
(*   "dir_gitfile" a directory whose .git is a regular file                *)
(*   "dir_gitdir"  a directory whose .git is a directory                   *)

Kinds == {"absent", "file", "dir", "dir_gitfile", "dir_gitdir"}

is_dir(kind) == kind \in {"dir", "dir_gitfile", "dir_gitdir"}
git_exists(kind) == kind = "dir_gitdir"

iterdir(ch) == {n \in DOMAIN ch : ch[n] # "absent"}

\* the children in descending order
RECURSIVE sorted_descending(_)
sorted_descending(S) ==
    IF S = {} THEN <<>>
    ELSE LET m == CHOOSE x \in S : \A y \in S \ {x} : StrLess(y, x)
         IN  <<m>> \o sorted_descending(S \ {m})

\* sorted() of the children: they differ in their names alone
RECURSIVE sorted(_)
sorted(S) ==
    IF S = {} THEN <<>>
    ELSE LET m == CHOOSE x \in S : \A y \in S \ {x} : StrLess(x, y)
         IN  <<m>> \o sorted(S \ {m})

Qualifies(ch, name) ==
    LET is_helm_charts == Contains(name, HELM_CHARTS)
    IN  is_dir(ch[name]) /\ git_exists(ch[name]) /\ ~ is_helm_charts

RECURSIVE FilterRepos(_, _)
FilterRepos(ch, names) ==
    IF names = <<>> THEN <<>>
    ELSE (IF Qualifies(ch, Head(names)) THEN <<ChildPath(Head(names))>> ELSE <<>>)
         \o FilterRepos(ch, Tail(names))

\* find_git_repos where iterdir does not raise (the base is missing, or is
\* a directory that can be read)
find_git_repos(bk, ch) ==
    IF bk = "missing" THEN <<>>
    ELSE FilterRepos(ch, sorted(iterdir(ch)))



-----------------------------------------------------------------------------
(* chunk: a generator over range(0, len(lst), size).                       *)

\* lst[a:b] of Python, 0 <= a <= b
Slice(l, a, b) == SubSeq(l, a + 1, Min(b, Len(l)))

\* whether range(0, len(lst), size) has a value at position k
chunk_has_next(l, sz, k) == k < Len(l)
\* a slice one element too long
chunk_yield_overlapping(l, sz, k) == Slice(l, k, k + sz + 1)
\* the chunk yielded at range position k
chunk_yield(l, sz, k) == Slice(l, k, k + sz)
\* a step one element too long
chunk_advance_skipping(l, sz, k) == k + sz + 1
\* the range position after k
chunk_advance(l, sz, k) == k + sz

\* everything the generator yields from position k on
RECURSIVE chunk_from(_, _, _)
chunk_from(l, sz, k) ==
    IF chunk_has_next(l, sz, k)
    THEN <<chunk_yield(l, sz, k)>> \o chunk_from(l, sz, chunk_advance(l, sz, k))
    ELSE <<>>

chunk(l, sz) == chunk_from(l, sz, 0)

RECURSIVE Concat(_)
Concat(ss) == IF ss = <<>> THEN <<>> ELSE Head(ss) \o Concat(Tail(ss))

-----------------------------------------------------------------------------
(* applescript_for_group: the script is the sequence of its lines; a line  *)
(* is its text, with {repo} standing for the path the f-string puts there. *)

NoPath == [parent |-> "", name |-> <<>>]
Line(text) == [text |-> text, repo |-> NoPath]
LineF(text, repo) == [text |-> text, repo |-> repo]

T_tell_app == "tell application \"iTerm2\""
T_activate == "  activate"
T_if_count == "  if (count of windows) is 0 then"
T_create_window == "    create window with default profile"
T_else == "  else"
T_create_tab == "    tell current window to create tab with default profile"
T_end_if == "  end if"
T_set_window == "  set currentWindow to current window"
T_set_tab == "  set currentTab to current tab of currentWindow"
T_set_session == "  set currentSession to current session of currentTab"
T_write1 == "  tell currentSession to write text \"cd {repo} && clear\""
T_split_h1 == "  tell currentSession to split horizontally with default profile"
T_set2 == "  set session2 to last session of currentTab"
T_write2 == "  tell session2 to write text \"cd {repo} && clear\""
T_split_v1 == "  tell currentSession to split vertically with default profile"
T_set3 == "  set session3 to last session of currentTab"
T_write3 == "  tell session3 to write text \"cd {repo} && clear\""
T_split_v2 == "  tell session2 to split vertically with default profile"
T_set4 == "  set session4 to last session of currentTab"
T_write4 == "  tell session4 to write text \"cd {repo} && clear\""
T_end_tell == "end tell"

\* the first chunk takes a tab of the current window when there is one
ScriptOpen_reuses_window(first_tab_in_new_window) ==
    <<Line(T_tell_app), Line(T_activate), Line(T_if_count),
      Line(T_create_window), Line(T_else), Line(T_create_tab), Line(T_end_if),
      Line(T_set_window), Line(T_set_tab), Line(T_set_session)>>

\* every chunk makes a window
ScriptOpen_always_window(first_tab_in_new_window) ==
    <<Line(T_tell_app), Line(T_activate), Line(T_if_count),
      Line(T_create_window), Line(T_else), Line(T_create_window),
      Line(T_end_if), Line(T_set_window), Line(T_set_tab),
      Line(T_set_session)>>

\* lines 35-51
ScriptOpen(first_tab_in_new_window) ==
    <<Line(T_tell_app), Line(T_activate)>>
    \o (IF first_tab_in_new_window
        THEN <<Line(T_if_count), Line(T_create_window), Line(T_else),
               Line(T_create_window), Line(T_end_if)>>
        ELSE <<Line(T_if_count), Line(T_create_window), Line(T_else),
               Line(T_create_tab), Line(T_end_if)>>)
    \o <<Line(T_set_window), Line(T_set_tab), Line(T_set_session)>>

\* the third pane is split off the second one
ScriptPanes_splits_second(group) ==
    (IF Len(group) >= 1 THEN <<LineF(T_write1, group[1])>> ELSE <<>>)
    \o (IF Len(group) >= 2
        THEN <<Line(T_split_h1), Line(T_set2), LineF(T_write2, group[2])>>
        ELSE <<>>)
    \o (IF Len(group) >= 3
        THEN <<Line(T_split_v2), Line(T_set3), LineF(T_write3, group[3])>>
        ELSE <<>>)
    \o (IF Len(group) >= 4
        THEN <<Line(T_split_v2), Line(T_set4), LineF(T_write4, group[4])>>
        ELSE <<>>)

\* lines 53-73
ScriptPanes(group) ==
    (IF Len(group) >= 1 THEN <<LineF(T_write1, group[1])>> ELSE <<>>)
    \o (IF Len(group) >= 2
        THEN <<Line(T_split_h1), Line(T_set2), LineF(T_write2, group[2])>>
        ELSE <<>>)
    \o (IF Len(group) >= 3
        THEN <<Line(T_split_v1), Line(T_set3), LineF(T_write3, group[3])>>
        ELSE <<>>)
    \o (IF Len(group) >= 4
        THEN <<Line(T_split_v2), Line(T_set4), LineF(T_write4, group[4])>>
        ELSE <<>>)

applescript_for_group(group, first_tab_in_new_window) ==
    ScriptOpen(first_tab_in_new_window) \o ScriptPanes(group)
    \o <<Line(T_end_tell)>>

-----------------------------------------------------------------------------
(* The terminal application osascript drives.  Its windows are kept in     *)
(* creation order and the current window is the most recently created one; *)
(* a new window has one tab, a new tab one session, the current tab of a   *)
(* window is its newest tab, and a split appends the new session to its    *)
(* tab, so that "last session" is the session the split made.  by names    *)
(* the call that made a thing: 0 before the run, k for the k-th call,      *)
(* -1 for somebody else during the run.                                    *)

NewPane(k, from, dir) == [by |-> k, cmds |-> <<>>, from |-> from, dir |-> dir]
NewTab(k) == [by |-> k, panes |-> <<NewPane(k, 0, "-")>>]
NewWindow(k) == [by |-> k, tabs |-> <<NewTab(k)>>]

NoRefs == [currentWindow |-> 0, currentTab |-> 0, currentSession |-> 0,
           session2 |-> 0, session3 |-> 0, session4 |-> 0]

\* the session variable a line tells, "" when it tells none
Told(text) ==
    CASE text \in {T_write1, T_split_h1, T_split_v1} -> "currentSession"
      [] text \in {T_write2, T_split_v2} -> "session2"
      [] text = T_write3 -> "session3"
      [] text = T_write4 -> "session4"
      [] OTHER -> ""

\* the session variable a line sets, "" when it sets none
SetBy(text) ==
    CASE text = T_set_session -> "currentSession"
      [] text = T_set2 -> "session2"
      [] text = T_set3 -> "session3"
      [] text = T_set4 -> "session4"
      [] OTHER -> ""

IsWrite(text) == text \in {T_write1, T_write2, T_write3, T_write4}
IsSplit(text) == text \in {T_split_h1, T_split_v1, T_split_v2}
SplitDir(text) == IF text = T_split_h1 THEN "h" ELSE "v"

Fail(st) == [st EXCEPT !.ok = FALSE]

\* one line of a script run by the k-th call
ExecLine(st, line, k) ==
    LET text == line.text
        ws == st.windows
        active == st.at = "none" \/ st.at = st.branch
        cw == st.v.currentWindow
        ct == st.v.currentTab
    IN
    IF ~ st.ok THEN st
    ELSE IF text = T_if_count
    THEN [st EXCEPT !.at = "then",
                    !.branch = IF Len(ws) = 0 THEN "then" ELSE "else"]
    ELSE IF text = T_else THEN [st EXCEPT !.at = "else"]
    ELSE IF text = T_end_if THEN [st EXCEPT !.at = "none"]
    ELSE IF ~ active THEN st
    ELSE IF text = T_create_window
    THEN [st EXCEPT !.windows = Append(ws, NewWindow(k))]
    ELSE IF text = T_create_tab
    THEN IF Len(ws) = 0 THEN Fail(st)
         ELSE [st EXCEPT !.windows[Len(ws)].tabs = Append(@, NewTab(k))]
    ELSE IF text = T_set_window
    THEN IF Len(ws) = 0 THEN Fail(st)
         ELSE [st EXCEPT !.v.currentWindow = Len(ws)]
    ELSE IF text = T_set_tab
    THEN IF cw = 0 THEN Fail(st)
         ELSE [st EXCEPT !.v.currentTab = Len(ws[cw].tabs)]
    ELSE IF SetBy(text) # ""
    THEN IF ct = 0 THEN Fail(st)
         ELSE [st EXCEPT !.v[SetBy(text)] = Len(ws[cw].tabs[ct].panes)]
    ELSE IF IsWrite(text)
    THEN IF st.v[Told(text)] = 0 THEN Fail(st)
         ELSE [st EXCEPT !.windows[cw].tabs[ct].panes[st.v[Told(text)]].cmds =
                             Append(@, line.repo)]
    ELSE IF IsSplit(text)
    THEN IF st.v[Told(text)] = 0 THEN Fail(st)
         ELSE [st EXCEPT !.windows[cw].tabs[ct].panes =
                             Append(@, NewPane(k, st.v[Told(text)], SplitDir(text)))]
    ELSE st

RECURSIVE ExecFrom(_, _, _, _, _)
ExecFrom(st, script, k, n, upto) ==
    IF n > upto \/ n > Len(script) THEN st
    ELSE ExecFrom(ExecLine(st, script[n], k), script, k, n + 1, upto)

\* the terminal after the first upto lines of the k-th call's script
Exec(script, ws, k, upto) ==
    ExecFrom([windows |-> ws, ok |-> TRUE, at |-> "none", branch |-> "none",
              v |-> NoRefs], script, k, 1, upto)

\* osascript -e script, run to its end
osascript(script, ws, k) == Exec(script, ws, k, Len(script))

-----------------------------------------------------------------------------
(* The state machine.                                                      *)

NoChildren == [n \in Names |-> "absent"]
PreWindows(n) == [k \in 1..n |-> NewWindow(0)]

Printed(text, n, names) == [text |-> text, n |-> n, names |-> names]
Basenames(rs) == [k \in 1..Len(rs) |-> basename(rs[k])]

Idle ==
    /\ repos = <<>>
    /\ stdout = <<>>
    /\ lst = <<>>
    /\ size = GROUP_SIZE
    /\ i = 0
    /\ out = <<>>
    /\ first = TRUE
    /\ calls = <<>>
    /\ interfered = FALSE

\* a run of main: the entries under BASE_DIR are repositories or absent; any
\* of the first MaxFinderNames names and the next m names of the pool
Init ==
    /\ baseKind \in {"missing", "file", "dir"}
    /\ children \in
           IF baseKind # "dir" THEN {NoChildren}
           ELSE {[n \in Names |-> IF n \in S THEN "dir_gitdir" ELSE "absent"] :
                     S \in {A \cup (NamesUpTo(MaxFinderNames + m)
                                      \ NamesUpTo(MaxFinderNames)) :
                                A \in SUBSET NamesUpTo(MaxFinderNames),
                                m \in 0..MaxMore}}
    /\ term \in {PreWindows(n) : n \in 0..MaxPreWindows}
    /\ pc = "start"
    /\ Idle

\* a scan: the first names of the pool, each of every kind
InitFinder ==
    /\ baseKind \in {"missing", "file", "dir"}
    /\ children \in
           IF baseKind # "dir" THEN {NoChildren}
           ELSE {[n \in Names |-> IF n \in DOMAIN f THEN f[n] ELSE "absent"] :
                     f \in [NamesUpTo(MaxFinderNames) -> Kinds]}
    /\ term = <<>>
    /\ pc = "start"
    /\ Idle

\* lines 89-90; iterdir raises NotADirectoryError on a base that is a file
main_find ==
    /\ pc = "start"
    /\ \/ /\ baseKind = "file"
          /\ pc' = "raised"
          /\ UNCHANGED <<repos, stdout>>
       \/ /\ baseKind # "file"
          /\ repos' = find_git_repos(baseKind, children)
          /\ stdout' = Append(stdout, Printed("Found {n} repositories",
                                              Len(repos'), <<>>))
          /\ pc' = "found"
    /\ UNCHANGED <<baseKind, children, term, lst, size, i, out, first, calls,
                   interfered>>

\* lines 91-95
main_report ==
    /\ pc = "found"
    /\ \/ /\ repos # <<>>
          /\ stdout' = Append(stdout, Printed("Repositories:", 0,
                                              Basenames(repos)))
          /\ pc' = "open"
       \/ /\ repos = <<>>
          /\ stdout' = Append(stdout, Printed("No Git repositories found in "
                                              \o BASE_DIR, 0, <<>>))
          /\ pc' = "done"
    /\ UNCHANGED <<baseKind, children, term, repos, lst, size, i, out, first,
                   calls, interfered>>

\* lines 96 and 81-82: the generator is made, nothing of it has run
open_repos_in_iterm ==
    /\ pc = "open"
    /\ first' = TRUE
    /\ lst' = repos
    /\ size' = GROUP_SIZE
    /\ i' = 0
    /\ out' = <<>>
    /\ pc' = "loop"
    /\ UNCHANGED <<baseKind, children, term, repos, stdout, calls, interfered>>

\* first is never cleared
loop_next_keeps_first ==
    /\ pc = "loop"
    /\ chunk_has_next(lst, size, i)
    /\ LET grp == chunk_yield(lst, size, i)
       IN  /\ out' = Append(out, grp)
           /\ calls' = Append(calls, [grp |-> grp, first |-> first, rc |-> -1])
    /\ i' = chunk_advance(lst, size, i)
    /\ pc' = "calling"
    /\ UNCHANGED <<baseKind, children, term, repos, stdout, lst, size, first,
                   interfered>>

\* lines 82-85, up to the start of the blocking call
loop_next ==
    /\ pc = "loop"
    /\ chunk_has_next(lst, size, i)
    /\ LET grp == chunk_yield(lst, size, i)
       IN  /\ out' = Append(out, grp)
           /\ calls' = Append(calls, [grp |-> grp, first |-> first, rc |-> -1])
    /\ i' = chunk_advance(lst, size, i)
    /\ first' = FALSE
    /\ pc' = "calling"
    /\ UNCHANGED <<baseKind, children, term, repos, stdout, lst, size,
                   interfered>>

\* line 82, the generator is exhausted; main returns
loop_end ==
    /\ pc = "loop"
    /\ ~ chunk_has_next(lst, size, i)
    /\ pc' = "done"
    /\ UNCHANGED <<baseKind, children, term, repos, stdout, lst, size, i, out,
                   first, calls, interfered>>

CallScript(c) == applescript_for_group(c.grp, c.first)

\* line 85: osascript ran the script and exited 0
call_returns ==
    /\ pc = "calling"
    /\ LET k == Len(calls)
           r == osascript(CallScript(calls[k]), term, k)
       IN  /\ r.ok
           /\ term' = r.windows
           /\ calls' = [calls EXCEPT ![k].rc = 0]
    /\ pc' = "loop"
    /\ UNCHANGED <<baseKind, children, repos, stdout, lst, size, i, out, first,
                   interfered>>

\* check=False: the exit status is dropped and the loop goes on
call_fails_unchecked ==
    /\ pc = "calling"
    /\ LET k == Len(calls)
           script == applescript_for_group(calls[k].grp, calls[k].first)
       IN  /\ \E upto \in 0..(Len(script) - 1) :
                  term' = Exec(script, term, k, upto).windows
           /\ calls' = [calls EXCEPT ![k].rc = 1]
    /\ pc' = "loop"
    /\ UNCHANGED <<baseKind, children, repos, stdout, lst, size, i, out, first,
                   interfered>>

\* line 85: osascript exited non-zero after some of the script's lines;
\* check=True raises CalledProcessError, which nothing catches
call_fails ==
    /\ pc = "calling"
    /\ LET k == Len(calls)
           script == CallScript(calls[k])
       IN  /\ \E upto \in 0..(Len(script) - 1) :
                  term' = Exec(script, term, k, upto).windows
           /\ calls' = [calls EXCEPT ![k].rc = 1]
    /\ pc' = "raised"
    /\ UNCHANGED <<baseKind, children, repos, stdout, lst, size, i, out, first,
                   interfered>>

\* somebody closes every window of the terminal between two calls
env_close_all ==
    /\ pc = "loop"
    /\ ~ interfered
    /\ term # <<>>
    /\ term' = <<>>
    /\ interfered' = TRUE
    /\ UNCHANGED <<baseKind, children, pc, repos, stdout, lst, size, i, out,
                   first, calls>>

\* somebody opens a window of their own between two calls
env_new_window ==
    /\ pc = "loop"
    /\ ~ interfered
    /\ term' = Append(term, NewWindow(-1))
    /\ interfered' = TRUE
    /\ UNCHANGED <<baseKind, children, pc, repos, stdout, lst, size, i, out,
                   first, calls>>

Next ==
    \/ main_find
    \/ main_report
    \/ open_repos_in_iterm
    \/ loop_next
    \/ loop_end
    \/ call_returns
    \/ call_fails
    \/ env_close_all
    \/ env_new_window

Spec == Init /\ [][Next]_vars

NextFinder == main_find \/ main_report

SpecFinder == InitFinder /\ [][NextFinder]_vars

(* The chunk generator on its own: any list, any size > 0.                 *)

RECURSIVE SeqsUpTo(_, _)
SeqsUpTo(S, n) ==
    IF n = 0 THEN {<<>>}
    ELSE LET shorter == SeqsUpTo(S, n - 1)
         IN  shorter \cup {Append(q, x) : q \in shorter, x \in S}

ChunkItems == {ChildPath(NamePool[1]), ChildPath(NamePool[3])}

InitChunk ==
    /\ baseKind = "dir"
    /\ children = NoChildren
    /\ term = <<>>
    /\ pc = "chunking"
    /\ repos = <<>>
    /\ stdout = <<>>
    /\ lst \in SeqsUpTo(ChunkItems, MaxLen)
    /\ size \in 1..MaxSize
    /\ i = 0
    /\ out = <<>>
    /\ first = TRUE
    /\ calls = <<>>
    /\ interfered = FALSE

\* next() on the generator: lines 27-28
chunk_next ==
    /\ pc = "chunking"
    /\ chunk_has_next(lst, size, i)
    /\ out' = Append(out, chunk_yield(lst, size, i))
    /\ i' = chunk_advance(lst, size, i)
    /\ UNCHANGED <<baseKind, children, term, pc, repos, stdout, lst, size,
                   first, calls, interfered>>

\* next() on the exhausted generator: StopIteration
chunk_stop ==
    /\ pc = "chunking"
    /\ ~ chunk_has_next(lst, size, i)
    /\ pc' = "chunked"
    /\ UNCHANGED <<baseKind, children, term, repos, stdout, lst, size, i, out,
                   first, calls, interfered>>

NextChunk == chunk_next \/ chunk_stop

SpecChunk == InitChunk /\ [][NextChunk]_vars

-----------------------------------------------------------------------------
(* What the claims need that is no part of the program.                    *)

CeilDiv(n, d) == (n + d - 1) \div d

\* the names of NamePool that contain "helm-charts", read off the pool
ExcludedNames == {NamePool[2], NamePool[4]}

\* the names of NamePool in lexicographic order, read off the pool:
\* a, a-, ab, b, c, charts, d, e, f, g, h, helm, helm-charts-x, x-helm-charts
LexOrder == <<NamePool[5], NamePool[13], NamePool[3], NamePool[1], NamePool[7],
              NamePool[14], NamePool[8], NamePool[9], NamePool[10],
              NamePool[11], NamePool[12], NamePool[6], NamePool[2],
              NamePool[4]>>

LexRank(name) == CHOOSE k \in 1..Len(LexOrder) : LexOrder[k] = name

\* the children the claims call qualifying: a directory, with a .git
\* directory in it, whose name has no "helm-charts" in it
QualifyingNames ==
    {n \in Names : /\ children[n] \in {"dir", "dir_gitfile", "dir_gitdir"}
                   /\ children[n] = "dir_gitdir"
                   /\ n \notin ExcludedNames}

Range(f) == {f[k] : k \in DOMAIN f}

-----------------------------------------------------------------------------
(* C1: for a list of length N and a size S > 0 the generator yields        *)
(* ceil(N/S) chunks; every chunk but the last has length S, the last has   *)
(* a length in 1..S, no chunk is empty, and an empty list yields none.     *)
C1_ChunkCountAndSizes ==
    LET N == Len(lst)
        S == size
    IN  /\ \A k \in 1..Len(out) : Len(out[k]) >= 1 /\ Len(out[k]) <= S
        /\ \A k \in 1..(Len(out) - 1) : Len(out[k]) = S
        /\ Len(out) <= CeilDiv(N, S)
        /\ pc = "chunked" =>
               /\ Len(out) = CeilDiv(N, S)
               /\ N = 0 => out = <<>>
               /\ N > 0 => Len(out[Len(out)]) \in 1..S

C1_Witness ==
    /\ pc = "chunked"
    /\ Len(lst) = 5
    /\ size = 2
    /\ Len(out) = 3
    /\ Len(out[3]) = 1

(* C2: the chunks yielded, concatenated in the order they were yielded,    *)
(* are the list: nothing dropped, duplicated or reordered.                 *)
C2_ConcatIsList ==
    /\ Concat(out) = SubSeq(lst, 1, Len(Concat(out)))
    /\ pc = "chunked" => Concat(out) = lst

C2_Witness ==
    /\ pc = "chunked"
    /\ Len(out) >= 2
    /\ Len(lst) = 5
    /\ lst[1] # lst[2]
    /\ Concat(out) = lst

(* C3: on a base that is a directory find_git_repos returns exactly the    *)
(* children that are directories, have a .git directory and have no        *)
(* "helm-charts" in their name, each once, in lexicographic order of name. *)
C3_FinderFilterAndOrder ==
    (baseKind = "dir" /\ pc \in {"found", "open", "done"}) =>
        /\ Range(repos) = {ChildPath(n) : n \in QualifyingNames}
        /\ Len(repos) = Cardinality(QualifyingNames)
        /\ \A j, k \in 1..Len(repos) :
               j < k => LexRank(repos[j].name) < LexRank(repos[k].name)

C3_Witness ==
    /\ baseKind = "dir"
    /\ pc = "found"
    /\ children[NamePool[1]] = "dir_gitdir"
    /\ children[NamePool[2]] = "dir_gitdir"
    /\ children[NamePool[3]] = "dir_gitdir"
    /\ children[NamePool[4]] = "dir_gitfile"
    /\ children[NamePool[5]] = "dir_gitdir"
    /\ repos = <<ChildPath(NamePool[5]), ChildPath(NamePool[3]),
                 ChildPath(NamePool[1])>>

(* C4: when BASE_DIR is missing, or is a directory with no qualifying      *)
(* child, find_git_repos returns the empty list without raising, main      *)
(* prints the not-found notice and returns, and no osascript call is       *)
(* issued: the terminal is left as it was.                                 *)
C4_NothingFound ==
    (baseKind = "missing" \/ (baseKind = "dir" /\ QualifyingNames = {})) =>
        /\ pc \in {"start", "found", "done"}
        /\ pc # "done" => ENABLED Next
        /\ pc # "start" => repos = <<>>
        /\ pc = "done" =>
               /\ Len(stdout) = 2
               /\ stdout[1].n = 0
               /\ stdout[2].text = "No Git repositories found in " \o BASE_DIR
        /\ calls = <<>>
        /\ \A w \in 1..Len(term) : term[w] = NewWindow(0)

C4_Witness ==
    /\ baseKind = "dir"
    /\ children[NamePool[2]] = "dir_gitdir"
    /\ children[NamePool[4]] = "dir_gitdir"
    /\ QualifyingNames = {}
    /\ pc = "done"
    /\ calls = <<>>

-----------------------------------------------------------------------------
(* What the claims about the calls read off a run.                         *)

\* the k-th group of four of main's repos
FourAt(k) == SubSeq(repos, 4 * (k - 1) + 1, Min(4 * k, Len(repos)))

LastCall == calls[Len(calls)]
LastScript == CallScript(LastCall)
\* what the call in flight does to the terminal when it runs to its end
LastRun == osascript(LastScript, term, Len(calls))

WriteLines(script) ==
    LET W(l) == IsWrite(l.text) IN SelectSeq(script, W)
SplitLines(script) ==
    LET P(l) == IsSplit(l.text) IN SelectSeq(script, P)
CdTargets(script) ==
    [j \in 1..Len(WriteLines(script)) |-> WriteLines(script)[j].repo]

SessionName(j) ==
    <<"currentSession", "session2", "session3", "session4">>[j]

LineAt(script, text) == CHOOSE n \in 1..Len(script) : script[n].text = text

\* the tabs the k-th call made, wherever they are
TabsBy(k) ==
    UNION {{term[w].tabs[t] : t \in {u \in 1..Len(term[w].tabs) :
                                         term[w].tabs[u].by = k}} :
               w \in 1..Len(term)}

\* the panes a group opens: one per path, holding that path's command
PanesHold(tab, grp) ==
    /\ Len(tab.panes) = Len(grp)
    /\ \A p \in 1..Len(grp) : tab.panes[p].cmds = <<grp[p]>>

(* C5: a run over N >= 1 repositories in which every call succeeds issues  *)
(* ceil(N/4) calls, one per chunk in chunk order; the first script is      *)
(* generated with first_tab_in_new_window true, every later one with it    *)
(* false.                                                                  *)
C5_OneCallPerChunk ==
    (pc = "done" /\ Len(repos) >= 1) =>
        /\ Len(calls) = CeilDiv(Len(repos), 4)
        /\ \A k \in 1..Len(calls) :
               /\ calls[k].grp = FourAt(k)
               /\ calls[k].first = (k = 1)
               /\ calls[k].rc = 0

C5_Witness ==
    /\ pc = "done"
    /\ Len(repos) = 9
    /\ Len(calls) = 3
    /\ calls[1].first
    /\ ~ calls[2].first
    /\ ~ calls[3].first

(* C6: a call is issued only after every earlier one returned 0; when the  *)
(* k-th call exits non-zero the run ends raised with k calls issued, each  *)
(* chunk handed over once, no later chunk processed, chunk k not retried,  *)
(* and what calls 1..k-1 opened is still there.                            *)
C6_FailFast ==
    /\ \A k \in 1..(Len(calls) - 1) : calls[k].rc = 0
    /\ \A k \in 1..Len(calls) : calls[k].grp = FourAt(k)
    /\ Len(out) = Len(calls)
    /\ (pc = "calling") = (calls # <<>> /\ LastCall.rc = -1)
    /\ (calls # <<>> /\ LastCall.rc = 1) => pc = "raised"
    /\ pc = "raised" => ~ ENABLED Next
    /\ (pc = "raised" /\ calls # <<>>) =>
           /\ LastCall.rc = 1
           /\ ~ interfered =>
                  \A j \in 1..(Len(calls) - 1) :
                      \E tab \in TabsBy(j) : PanesHold(tab, calls[j].grp)

C6_Witness ==
    /\ pc = "raised"
    /\ ~ interfered
    /\ Len(repos) = 9
    /\ Len(calls) = 2
    /\ calls[1].rc = 0
    /\ calls[2].rc = 1
    /\ \E tab \in TabsBy(2) : Len(tab.panes) = 2

(* C7: the script of the first chunk makes a window in both branches of    *)
(* its window-count test, whatever the count is; the script of a later     *)
(* chunk makes a tab in the current window when there is a window and a    *)
(* window only when there is none.                                         *)
C7_WindowOrTab ==
    pc = "calling" =>
        LET script == LastScript
            n == LineAt(script, T_if_count)
            r == LastRun
            nw == Len(term)
        IN  /\ script[n + 2].text = T_else
            /\ script[n + 4].text = T_end_if
            /\ script[n + 1].text = T_create_window
            /\ r.ok
            /\ \A w \in 1..(nw - 1) : r.windows[w] = term[w]
            /\ LastCall.first =>
                   /\ script[n + 3].text = T_create_window
                   /\ Len(r.windows) = nw + 1
                   /\ nw > 0 => r.windows[nw] = term[nw]
            /\ ~ LastCall.first =>
                   /\ script[n + 3].text = T_create_tab
                   /\ nw = 0 => Len(r.windows) = 1
                   /\ nw > 0 =>
                          /\ Len(r.windows) = nw
                          /\ Len(r.windows[nw].tabs) = Len(term[nw].tabs) + 1

C7_Witness ==
    /\ pc = "calling"
    /\ LastCall.first
    /\ Len(term) >= 1
    /\ Len(LastRun.windows) = Len(term) + 1

(* C8: for a group of n paths, 1 <= n <= 4, the script has n - 1 splits    *)
(* and n change-directory commands, the j-th for the j-th path in the j-th *)
(* session; session 2 is a horizontal split of the first pane, session 3 a *)
(* vertical split of the first pane, session 4 a vertical split of the     *)
(* second; every session variable is set before it is told.                *)
C8_PaneLayout ==
    pc = "calling" =>
        LET script == LastScript
            grp == LastCall.grp
            n == Len(grp)
            writes == WriteLines(script)
            splits == SplitLines(script)
            tab == LET ws == LastRun.windows
                   IN  ws[Len(ws)].tabs[Len(ws[Len(ws)].tabs)]
        IN  /\ n \in 1..4
            /\ Len(writes) = n
            /\ Len(splits) = n - 1
            /\ \A j \in 1..n :
                   /\ writes[j].repo = grp[j]
                   /\ Told(writes[j].text) = SessionName(j)
            /\ n >= 2 => /\ Told(splits[1].text) = "currentSession"
                         /\ SplitDir(splits[1].text) = "h"
            /\ n >= 3 => /\ Told(splits[2].text) = "currentSession"
                         /\ SplitDir(splits[2].text) = "v"
            /\ n >= 4 => /\ Told(splits[3].text) = "session2"
                         /\ SplitDir(splits[3].text) = "v"
            /\ \A m \in 1..Len(script) :
                   Told(script[m].text) # "" =>
                       \E e \in 1..(m - 1) :
                           SetBy(script[e].text) = Told(script[m].text)
            /\ LastRun.ok
            /\ PanesHold(tab, grp)
            /\ n >= 2 => tab.panes[2].from = 1 /\ tab.panes[2].dir = "h"
            /\ n >= 3 => tab.panes[3].from = 1 /\ tab.panes[3].dir = "v"
            /\ n >= 4 => tab.panes[4].from = 2 /\ tab.panes[4].dir = "v"

C8_Witness ==
    /\ pc = "calling"
    /\ Len(LastCall.grp) = 4
    /\ Len(SplitLines(LastScript)) = 3
    /\ Told(SplitLines(LastScript)[3].text) = "session2"

(* C9: in a run where every call succeeds, the change-directory commands   *)
(* of the generated scripts, taken call by call and line by line, name the *)
(* finder's repositories in the finder's order, each exactly once.         *)
C9_EveryRepoOnce ==
    LET targets == Concat([k \in 1..Len(calls) |->
                               CdTargets(CallScript(calls[k]))])
    IN  /\ pc \in {"loop", "calling", "done", "raised"} =>
               targets = SubSeq(repos, 1, Len(targets))
        /\ pc = "done" =>
               /\ targets = repos
               /\ \A j, k \in 1..Len(targets) : j # k => targets[j] # targets[k]

C9_Witness ==
    /\ pc = "done"
    /\ Len(repos) = 10
    /\ Len(calls) = 3
    /\ Len(CdTargets(CallScript(calls[3]))) = 2

(* C10: with the current window the most recently created one, a run of k  *)
(* successful chunks that nobody else interferes with adds one window,     *)
(* which ends with k tabs, one per chunk in chunk order, and no window     *)
(* that was there before gains a tab or a pane; and when every window has  *)
(* been closed between two calls the next chunk's script makes a window    *)
(* instead of failing.                                                     *)
C10_OneWindowPerRun ==
    /\ (pc \in {"loop", "done"} /\ ~ interfered /\ calls # <<>>) =>
           LET k == Len(calls)
               mine == term[Len(term)]
           IN  /\ Cardinality({w \in 1..Len(term) : term[w].by # 0}) = 1
               /\ \A w \in 1..(Len(term) - 1) : term[w] = NewWindow(0)
               /\ mine.by = 1
               /\ Len(mine.tabs) = k
               /\ \A t \in 1..k : /\ mine.tabs[t].by = t
                                  /\ PanesHold(mine.tabs[t], calls[t].grp)
    /\ (pc = "calling" /\ ~ LastCall.first /\ term = <<>>) =>
           /\ LastRun.ok
           /\ Len(LastRun.windows) = 1
           /\ PanesHold(LastRun.windows[1].tabs[1], LastCall.grp)

C10_Witness ==
    /\ pc = "done"
    /\ ~ interfered
    /\ Len(calls) = 3
    /\ Len(term) = 2
    /\ term[1] = NewWindow(0)
    /\ Len(term[2].tabs) = 3

=============================================================================
